---- MODULE Spec2Model ----
(***************************************************************************)
(* Model of fibsem/ui/FibsemMovementUI.py: the movement dialog controller. *)
(* The dialog owns the movement mode, the last acquired electron/ion image *)
(* pair, their horizontal concatenation (the composite shown in the        *)
(* viewer) and the viewer layer that carries the click callbacks.  Every   *)
(* handler runs to completion on the event thread, so every handler is one *)
(* action.  Collaborator calls (acquisition, stage moves, viewer) either   *)
(* return or raise; which of the two is an input of the action.            *)
(*                                                                         *)
(* Images are modelled by identity: an image is named by how recently it   *)
(* was acquired (1: by the last acquisition; 0: attribute not set).  A     *)
(* composite is the pair of the images it was concatenated from.  Pixel    *)
(* coordinates are integers, (row, col).                                   *)
(***************************************************************************)
EXTENDS Integers, Sequences, FiniteSets, TLC

\* ------------------------------------------------------------------ bounds
\* width of the border around the composite that clicks are drawn from
Border == 1

\* --------------------------------------------------------------- constants
TiltMin == 0
TiltMax == 25

None == "None"

\* class MovementMode(Enum), in declaration order
MovementMode == <<"Stable", "Eucentric", "Needle">>

\* fibsem.structures.BeamType
BeamType == {"ELECTRON", "ION"}

\* the two strings added to comboBox_needle_coordinate
NeedleCoordinates == <<"Source", "Destination">>

\* keys of msg_dict in set_message
msg_dict_keys == {"eucentric", "alignment"}

\* msg_dict[msg_type]
msg_dict(msg_type) ==
    IF msg_type = "eucentric" THEN "msg_dict:eucentric" ELSE "msg_dict:alignment"

EucentricText == "Centre a feature in the Electron Beam, then double click the same feature in the Ion Beam."

\* ------------------------------------------------------------------ inputs
\* message-type hints and messages a caller may construct the dialog with
MsgTypes == {None, "eucentric", "alignment", "other"}
Msgs == {None, "Move around"}

\* (height, width) of the composite: two images of the same resolution side
\* by side, so the width is even
Shapes == {<<4, 12>>}

\* the steps of update_displays at which a collaborator may raise
FailSteps == {"none", "hfw", "acquire", "concat", "clear", "add_image",
              "cb_double", "cb_single"}

EventTypes == {"mouse_press", "mouse_move"}

\* tilt angles the user may type into doubleSpinBox_tilt_degrees
TiltInputs == {-5, 30}

\* the composite and the clicks of the documented example
ExampleShape == <<64, 64>>
ExampleClicks == {<<10, 50>>, <<10, 10>>, <<70, 10>>}

\* clicks the dialog is driven with: one inside each half, one below and
\* one to the right of the composite
Clicks(sh) ==
    IF sh = ExampleShape THEN ExampleClicks
    ELSE {<<1, 1>>, <<1, (sh[2] \div 2) + 1>>, <<sh[1], 1>>, <<1, sh[2]>>}

\* composites the click mapping is evaluated on exhaustively: wide, tall
\* (H > W/2) and square ones
GridShapes == {<<2, 8>>, <<3, 4>>, <<4, 4>>, <<6, 8>>, <<4, 12>>}

\* every coordinate of the composite and of the border around it
Grid(sh) ==
    IF sh = ExampleShape THEN ExampleClicks
    ELSE {<<r, c>> : r \in (0 - Border)..(sh[1] - 1 + Border),
                     c \in (0 - Border)..(sh[2] - 1 + Border)}

VARIABLES
    phase,                  \* "open", "closed", or "failed" (__init__ raised)
    shape,                  \* (H, W) of every composite this session acquires
    msg_type, msg,          \* self.msg_type, self.msg
    movement_mode,          \* self.movement_mode
    tilt_movement_enabled,  \* self.tilt_movement_enabled
    comboBox_movement_mode, \* currentText() of the mode combobox
    comboBox_needle_coordinate, \* currentText() of the needle combobox
    needle_visible,         \* visibility of label_/comboBox_needle_coordinate
    tilt_connected,         \* pushButton_tilt_stage.clicked -> stage_tilt
    tilt_degrees,           \* doubleSpinBox_tilt_degrees.value()
    label_message,          \* label_message.text()
    eb_image, ib_image,     \* self.eb_image, self.ib_image
    image,                  \* self.image (the composite)
    layers,                 \* viewer.layers
    last,                   \* what the last handler did
    cls,                    \* the settings class being converted
    record,                 \* the settings record R handed to __to_dict__
    mapping,                \* the mapping __to_dict__ returned or __from_dict__ reads
    restored,               \* the record __from_dict__ returned
    files,                  \* the file system: path -> file content
    saved,                  \* the image last saved to each path
    img,                    \* the FibsemImage the program holds
    loaded                  \* the image the last load returned

vars == <<phase, shape, msg_type, msg, movement_mode, tilt_movement_enabled,
          comboBox_movement_mode, comboBox_needle_coordinate, needle_visible,
          tilt_connected, tilt_degrees, label_message, eb_image, ib_image,
          image, layers, last, cls, record, mapping, restored, files, saved,
          img, loaded>>

\* ------------------------------------------------------------- persistence
\* Python's None where the model holds an object (a record, a file, an image)
NoRecord == [cls |-> "NoneType"]

\* the paths images are saved to
Paths == {"test.tif", "other.tif"}

\* no conversion under way, nothing on disk: the dialog converts no settings
\* and writes no file
NoStorage ==
    /\ cls = None
    /\ record = NoRecord
    /\ mapping = NoRecord
    /\ restored = NoRecord
    /\ files = [p \in Paths |-> NoRecord]
    /\ saved = [p \in Paths |-> NoRecord]
    /\ img = NoRecord
    /\ loaded = NoRecord

\* ------------------------------------------------------------------ events
\* one collaborator call made by a handler
Ev(f) == [f |-> f, dx |-> 0, dy |-> 0, beam |-> None, t |-> 0,
          rotate_compucentric |-> FALSE, tilt_compucentric |-> FALSE]

\* the attribute self.image before the first successful concatenation
NoImage == [eb |-> 0, ib |-> 0]

\* np.concatenate([eb.data, ib.data], axis=1)
Concat(eb, ib) == [eb |-> eb, ib |-> ib]

\* Images are named by recency: 1 is the pair acquired last, 2 the pair
\* acquired before it that something still refers to, and so on.
\* Older(d): every image d refers to, one acquisition later
OlderId(g) == IF g = 0 THEN 0 ELSE g + 1
OlderImage(im) == [eb |-> OlderId(im.eb), ib |-> OlderId(im.ib)]
Older(d) ==
    [eb_image |-> OlderId(d.eb_image),
     ib_image |-> OlderId(d.ib_image),
     image |-> OlderImage(d.image),
     layers |-> [i \in 1..Len(d.layers) |->
                    [d.layers[i] EXCEPT !.image = OlderImage(d.layers[i].image)]]]

\* the images d refers to
Referenced(d) ==
    ({d.eb_image, d.ib_image, d.image.eb, d.image.ib}
       \cup UNION {{d.layers[i].image.eb, d.layers[i].image.ib} : i \in 1..Len(d.layers)})
    \ {0}

\* the names closed up after images nothing refers to any more are dropped
RankId(d, g) == IF g = 0 THEN 0 ELSE Cardinality({h \in Referenced(d) : h <= g})
RankImage(d, im) == [eb |-> RankId(d, im.eb), ib |-> RankId(d, im.ib)]
Rank(d) ==
    [eb_image |-> RankId(d, d.eb_image),
     ib_image |-> RankId(d, d.ib_image),
     image |-> RankImage(d, d.image),
     layers |-> [i \in 1..Len(d.layers) |->
                    [d.layers[i] EXCEPT !.image = RankImage(d, d.layers[i].image)]]]

\* ---------------------------------------------------------- update_displays
\* d holds the attributes update_displays touches; fail is the step at which
\* a collaborator raises.  The bare except catches whatever is raised and
\* shows a notification; nothing is re-raised.
UpdateDisplaysState(d, fail) ==
    LET d1 == IF fail \in {"hfw", "acquire"} THEN d
              ELSE [Older(d) EXCEPT !.eb_image = 1, !.ib_image = 1]
        d2 == IF fail \in {"hfw", "acquire", "concat"} THEN d1
              ELSE [d1 EXCEPT !.image = Concat(d1.eb_image, d1.ib_image)]
        d3 == IF fail \in {"hfw", "acquire", "concat", "clear"} THEN d2
              ELSE [d2 EXCEPT !.layers = <<>>]
        d4 == IF fail \in {"hfw", "acquire", "concat", "clear", "add_image"} THEN d3
              ELSE [d3 EXCEPT !.layers =
                       <<[image |-> d3.image,
                          double_click |-> fail \notin {"cb_double"},
                          single_click |-> fail \notin {"cb_double", "cb_single"}]>>]
    IN  Rank(d4)

\* the collaborator calls update_displays makes, in order
UpdateDisplaysEvents(fail) ==
    LET acq == IF fail \in {"hfw"} THEN <<>> ELSE <<Ev("take_reference_images")>>
        clr == IF fail \in {"hfw", "acquire", "concat"} THEN <<>>
               ELSE <<Ev("layers.clear")>>
        add == IF fail \in {"hfw", "acquire", "concat", "clear"} THEN <<>>
               ELSE <<Ev("add_image")>>
        inf == IF fail = "none" THEN <<>> ELSE <<Ev("show_info")>>
    IN  <<Ev("update_displays")>> \o acq \o clr \o add \o inf

\* update_displays with an except clause that re-raises
UpdateDisplaysRaises_reraise(fail) == IF fail = "none" THEN None ELSE "refresh"

\* the exception update_displays lets through to its caller
UpdateDisplaysRaises(fail) == None

update_displays(d, fail) ==
    [d |-> UpdateDisplaysState(d, fail),
     events |-> UpdateDisplaysEvents(fail),
     err |-> UpdateDisplaysRaises(fail)]

\* the attributes update_displays works on, in the current state
Displays == [eb_image |-> eb_image, ib_image |-> ib_image,
             image |-> image, layers |-> layers]

\* -------------------------------------------------------- get_data_from_coord
\* the image object held by an attribute of the dialog
Attr(name, id) == [attr |-> name, id |-> id]
NoAttr == Attr(None, 0)

\* get_data_from_coord with the electron column compared with the height
get_data_from_coord_ebHeight(img_shape, eb, ib, coords) ==
    LET eb_shape == <<img_shape[1], img_shape[2] \div 2>>
        ib_shape == <<img_shape[1], img_shape[2]>>
    IN  IF (coords[1] > 0 /\ coords[1] < eb_shape[1])
           /\ (coords[2] > 0 /\ coords[2] < eb_shape[1])
        THEN [beam_type |-> "ELECTRON", adorned_image |-> Attr("eb_image", eb),
              coords |-> coords]
        ELSE IF (coords[1] > 0 /\ coords[1] < ib_shape[1])
                /\ (coords[2] > eb_shape[1] /\ coords[2] < ib_shape[2])
        THEN [beam_type |-> "ION", adorned_image |-> Attr("ib_image", ib),
              coords |-> <<coords[1], coords[2] - (ib_shape[2] \div 2)>>]
        ELSE [beam_type |-> None, adorned_image |-> NoAttr, coords |-> coords]

\* get_data_from_coord without the upper bound on the row
get_data_from_coord_noRowBound(img_shape, eb, ib, coords) ==
    LET eb_shape == <<img_shape[1], img_shape[2] \div 2>>
        ib_shape == <<img_shape[1], img_shape[2]>>
    IN  IF coords[1] > 0 /\ (coords[2] > 0 /\ coords[2] < eb_shape[2])
        THEN [beam_type |-> "ELECTRON", adorned_image |-> Attr("eb_image", eb),
              coords |-> coords]
        ELSE IF coords[1] > 0 /\ (coords[2] > eb_shape[1] /\ coords[2] < ib_shape[2])
        THEN [beam_type |-> "ION", adorned_image |-> Attr("ib_image", ib),
              coords |-> <<coords[1], coords[2] - (ib_shape[2] \div 2)>>]
        ELSE [beam_type |-> None, adorned_image |-> NoAttr, coords |-> coords]

get_data_from_coord(img_shape, eb, ib, coords) ==
    LET eb_shape == <<img_shape[1], img_shape[2] \div 2>>
        ib_shape == <<img_shape[1], img_shape[2]>>
    IN  IF (coords[1] > 0 /\ coords[1] < eb_shape[1])
           /\ (coords[2] > 0 /\ coords[2] < eb_shape[2])
        THEN [beam_type |-> "ELECTRON", adorned_image |-> Attr("eb_image", eb),
              coords |-> coords]
        ELSE IF (coords[1] > 0 /\ coords[1] < ib_shape[1])
                /\ (coords[2] > eb_shape[1] /\ coords[2] < ib_shape[2])
        THEN [beam_type |-> "ION", adorned_image |-> Attr("ib_image", ib),
              coords |-> <<coords[1], coords[2] - (ib_shape[2] \div 2)>>]
        ELSE [beam_type |-> None, adorned_image |-> NoAttr, coords |-> coords]

\* ------------------------------------------------------------- set_message
\* the text of label_message after set_message, or the KeyError it raises
set_message(mt, m, mode, label) ==
    IF m = None /\ mt \notin msg_dict_keys
    THEN [err |-> "KeyError", label |-> label]
    ELSE LET text == IF m = None THEN msg_dict(mt) ELSE m
         IN  [err |-> None,
              label |-> IF mode = "Eucentric" THEN EucentricText
                        ELSE IF mode = "Stable" THEN text
                        ELSE label]

\* ------------------------------------------------------------------- record
NoClick == [coords |-> <<0, 0>>, beam_type |-> None, adorned_image |-> NoAttr,
            local |-> <<0, 0>>, event |-> None, coord_type |-> None]

Last(op, err, events, click) ==
    [op |-> op, err |-> err, events |-> events, click |-> click]


\* ------------------------------------------------------------- conversions
\* conversions.pixel_to_realspace_coordinate((x, y), image): the displacement
\* of the pixel from the centre of the image it was clicked in, x to the
\* right and y upwards, in units of the pixel size
pixel_to_realspace_coordinate(coord, img_shape) ==
    LET cy == img_shape[1] \div 2
        cx == (img_shape[2] \div 2) \div 2
    IN  <<coord[1] - cx, cy - coord[2]>>

\* np.deg2rad, in microradians
deg2rad(deg) == (deg * 3141593) \div 180

\* QDoubleSpinBox keeps its value within [minimum, maximum]
SpinBoxClamp(v) == IF v < TiltMin THEN TiltMin ELSE IF v > TiltMax THEN TiltMax ELSE v

\* ---------------------------------------------------------------- __init__
\* self.tilt_movement_enabled as __init__ sets it
TiltEnabled(mt) == mt \in {"alignment"}

\* stage_tilt connected whatever tilt_movement_enabled is
TiltConnected_always(enabled) == TRUE

\* whether setup_connections connects pushButton_tilt_stage to stage_tilt
TiltConnected(enabled) == enabled

\* the label left visible in every mode
NeedleVisible_labelOnly(mode) ==
    [label |-> TRUE, comboBox |-> mode = "Needle"]

\* DESTINATION_MODE and the two setVisible calls that follow it
NeedleVisible(mode) ==
    [label |-> mode = "Needle", comboBox |-> mode = "Needle"]

\* the dialog as constructed with (msg_type, msg) drawn from cfgs, on a
\* microscope whose composites have a shape in shapes, the first refresh
\* failing at a step in fails
Construct(cfgs, shapes, fails) ==
    \E cfg \in cfgs, sh \in shapes, fail \in fails :
        LET mt == cfg[1]
            m  == cfg[2]
        IN
        LET sm == set_message(mt, m, "Stable", "")
            d0 == [eb_image |-> 0, ib_image |-> 0, image |-> NoImage, layers |-> <<>>]
            u  == update_displays(d0, fail)
            ok == sm.err = None
        IN  /\ shape = sh
            /\ msg_type = mt
            /\ msg = m
            /\ movement_mode = "Stable"
            /\ tilt_movement_enabled = TiltEnabled(mt)
            \* setup_connections
            /\ comboBox_movement_mode = MovementMode[1]
            /\ comboBox_needle_coordinate = NeedleCoordinates[1]
            /\ needle_visible = NeedleVisible("Stable")
            /\ tilt_connected = TiltConnected(TiltEnabled(mt))
            /\ tilt_degrees = SpinBoxClamp(0)
            \* set_message, update_displays
            /\ label_message = sm.label
            /\ phase = IF ok THEN "open" ELSE "failed"
            /\ eb_image = IF ok THEN u.d.eb_image ELSE 0
            /\ ib_image = IF ok THEN u.d.ib_image ELSE 0
            /\ image = IF ok THEN u.d.image ELSE NoImage
            /\ layers = IF ok THEN u.d.layers ELSE <<>>
            /\ last = IF ok THEN Last("__init__", u.err, u.events, NoClick)
                      ELSE Last("__init__", sm.err, <<>>, NoClick)
            /\ NoStorage

Init == Construct(MsgTypes \X Msgs, Shapes, FailSteps)

\* what no handler but the mode handlers touches
UnchangedSetup == UNCHANGED <<shape, msg_type, msg, tilt_movement_enabled, tilt_connected,
                              cls, record, mapping, restored, files, saved, img,
                              loaded>>
UnchangedWidgets == UNCHANGED <<comboBox_movement_mode, comboBox_needle_coordinate,
                                needle_visible, tilt_degrees, label_message>>

\* the attributes update_displays assigns
SetDisplays(d) ==
    /\ eb_image' = d.eb_image
    /\ ib_image' = d.ib_image
    /\ image' = d.image
    /\ layers' = d.layers

\* ------------------------------------------------ take_image_button_pressed
take_image_button_pressed(fail) ==
    /\ phase = "open"
    /\ LET u == update_displays(Displays, fail)
       IN  /\ SetDisplays(u.d)
           /\ last' = Last("take_image_button_pressed", u.err, u.events, NoClick)
    /\ UNCHANGED <<phase, movement_mode>>
    /\ UnchangedSetup /\ UnchangedWidgets

\* -------------------------------------------------- continue_button_pressed
continue_button_pressed ==
    /\ phase = "open"
    /\ phase' = "closed"
    /\ last' = Last("continue_button_pressed", None, <<Ev("close")>>, NoClick)
    /\ UNCHANGED <<movement_mode, eb_image, ib_image, image, layers>>
    /\ UnchangedSetup /\ UnchangedWidgets

\* ---------------------------------------------------- movement_mode_changed
\* the user picks another entry of comboBox_movement_mode; currentTextChanged
\* runs movement_mode_changed
movement_mode_changed(mode_name) ==
    /\ phase = "open"
    /\ mode_name # comboBox_movement_mode
    /\ comboBox_movement_mode' = mode_name
    /\ movement_mode' = mode_name
    /\ LET sm == set_message(msg_type, msg, mode_name, label_message)
       IN  /\ label_message' = sm.label
           /\ needle_visible' =
                 IF sm.err = None
                 THEN NeedleVisible(mode_name)
                 ELSE needle_visible
           /\ last' = Last("movement_mode_changed", sm.err, <<>>, NoClick)
    /\ UNCHANGED <<phase, comboBox_needle_coordinate, tilt_degrees,
                   eb_image, ib_image, image, layers>>
    /\ UnchangedSetup

\* the user picks Source or Destination; no handler is connected
needle_coordinate_selected(c) ==
    /\ phase = "open"
    /\ needle_visible.comboBox
    /\ c # comboBox_needle_coordinate
    /\ comboBox_needle_coordinate' = c
    /\ last' = Last("needle_coordinate_selected", None, <<>>, NoClick)
    /\ UNCHANGED <<phase, movement_mode, comboBox_movement_mode, needle_visible,
                   tilt_degrees, label_message, eb_image, ib_image, image, layers>>
    /\ UnchangedSetup

\* the user types an angle; the spin box is visible and enabled only when
\* tilt movement is enabled
tilt_degrees_edited(v) ==
    /\ phase = "open"
    /\ tilt_movement_enabled
    /\ SpinBoxClamp(v) # tilt_degrees
    /\ tilt_degrees' = SpinBoxClamp(v)
    /\ last' = Last("tilt_degrees_edited", None, <<>>, NoClick)
    /\ UNCHANGED <<phase, movement_mode, comboBox_movement_mode,
                   comboBox_needle_coordinate, needle_visible, label_message,
                   eb_image, ib_image, image, layers>>
    /\ UnchangedSetup

\* --------------------------------------------------------------- stage_tilt
\* the absolute move stage_tilt issues
stage_tilt_move(degrees) ==
    [Ev("absolute_move") EXCEPT !.t = deg2rad(degrees),
                                !.rotate_compucentric = TRUE,
                                !.tilt_compucentric = TRUE]

\* the refresh in a finally clause: issued also when the stage call raises
MoveThenUpdate_finally(op, move, raises, fails, click) ==
    \/ \E fail \in fails :
          LET u == update_displays(Displays, fail)
          IN  /\ SetDisplays(u.d)
              /\ last' = Last(op, u.err, <<move>> \o u.events, click)
    \/ /\ raises
       /\ \E fail \in fails :
             LET u == update_displays(Displays, fail)
             IN  /\ SetDisplays(u.d)
                 /\ last' = Last(op, "move", <<move>> \o u.events, click)

\* a handler that makes one stage call and then refreshes: the refresh is
\* reached only when the call returns.  fails: the steps at which the
\* refresh may fail; raises: whether the stage call may raise
MoveThenUpdate(op, move, raises, fails, click) ==
    \/ \E fail \in fails :
          LET u == update_displays(Displays, fail)
          IN  /\ SetDisplays(u.d)
              /\ last' = Last(op, u.err, <<move>> \o u.events, click)
    \/ /\ raises
       /\ UNCHANGED <<eb_image, ib_image, image, layers>>
       /\ last' = Last(op, "move", <<move>>, click)

stage_tilt ==
    /\ phase = "open"
    /\ tilt_connected
    /\ MoveThenUpdate("stage_tilt", stage_tilt_move(tilt_degrees), TRUE, FailSteps, NoClick)
    /\ UNCHANGED <<phase, movement_mode>>
    /\ UnchangedSetup /\ UnchangedWidgets

\* ---------------------------------------------- auto_eucentric_button_pressed
auto_eucentric_button_pressed ==
    /\ phase = "open"
    /\ MoveThenUpdate("auto_eucentric_button_pressed",
                      Ev("auto_eucentric_correction"), TRUE, FailSteps, NoClick)
    /\ UNCHANGED <<phase, movement_mode>>
    /\ UnchangedSetup /\ UnchangedWidgets

\* ------------------------------------------------------------ _double_click
\* the eucentric correction called with dy instead of -dy
double_click_move_dy(beam_type, mode, dx, dy) ==
    IF beam_type = "ION" /\ mode = "Eucentric"
    THEN [Ev("move_stage_eucentric_correction") EXCEPT !.dy = dy]
    ELSE [Ev("move_stage_relative_with_corrected_movement") EXCEPT
              !.dx = dx, !.dy = dy, !.beam = beam_type]

\* the eucentric correction chosen by the mode alone
double_click_move_anyBeam(beam_type, mode, dx, dy) ==
    IF mode = "Eucentric"
    THEN [Ev("move_stage_eucentric_correction") EXCEPT !.dy = 0 - dy]
    ELSE [Ev("move_stage_relative_with_corrected_movement") EXCEPT
              !.dx = dx, !.dy = dy, !.beam = beam_type]

\* the stage call _double_click makes for a click that resolved to a beam
double_click_move(beam_type, mode, dx, dy) ==
    IF beam_type = "ION" /\ mode = "Eucentric"
    THEN [Ev("move_stage_eucentric_correction") EXCEPT !.dy = 0 - dy]
    ELSE [Ev("move_stage_relative_with_corrected_movement") EXCEPT
              !.dx = dx, !.dy = dy, !.beam = beam_type]

\* the click as the handlers see it
Click(coords, r, etype, coord_type) ==
    [coords |-> coords, beam_type |-> r.beam_type, adorned_image |-> r.adorned_image,
     local |-> r.coords, event |-> etype, coord_type |-> coord_type]

double_click(coords, raises, fails) ==
    /\ phase = "open"
    /\ Len(layers) > 0 /\ layers[1].double_click
    /\ LET r  == get_data_from_coord(shape, eb_image, ib_image, coords)
           c  == Click(coords, r, "mouse_double_click", None)
           d  == pixel_to_realspace_coordinate(<<r.coords[2], r.coords[1]>>, shape)
           mv == double_click_move(r.beam_type, comboBox_movement_mode, d[1], d[2])
       IN  IF image = NoImage
           THEN /\ last' = Last("_double_click", "AttributeError", <<>>,
                                Click(coords, [r EXCEPT !.beam_type = None], "mouse_double_click", None))
                /\ UNCHANGED <<movement_mode, eb_image, ib_image, image, layers>>
           ELSE IF r.beam_type = None
           THEN /\ last' = Last("_double_click", None, <<Ev("show_info")>>, c)
                /\ UNCHANGED <<movement_mode, eb_image, ib_image, image, layers>>
           ELSE /\ movement_mode' = comboBox_movement_mode
                /\ MoveThenUpdate("_double_click", mv, raises, fails, c)
    /\ UNCHANGED phase
    /\ UnchangedSetup /\ UnchangedWidgets

\* ------------------------------------------------------------ _single_click
\* unpacking the three values get_data_from_coord returns into
\* (beam_type, adorned_image)
single_click_unpack(r) == "ValueError"

single_click(coords, etype) ==
    /\ phase = "open"
    /\ Len(layers) > 0 /\ layers[1].single_click
    /\ LET r == get_data_from_coord(shape, eb_image, ib_image, coords)
       IN  IF etype = "mouse_press" /\ movement_mode = "Needle"
           THEN IF image = NoImage
                THEN last' = Last("_single_click", "AttributeError", <<>>,
                                  Click(coords, [r EXCEPT !.beam_type = None], etype, None))
                ELSE IF single_click_unpack(r) # None
                THEN last' = Last("_single_click", single_click_unpack(r), <<>>,
                                  Click(coords, r, etype, None))
                ELSE last' = Last("_single_click", None, <<>>,
                                  Click(coords, r, etype, comboBox_needle_coordinate))
           ELSE last' = Last("_single_click", None, <<>>,
                             [NoClick EXCEPT !.coords = coords, !.event = etype])
    /\ UNCHANGED <<phase, movement_mode, eb_image, ib_image, image, layers>>
    /\ UnchangedSetup /\ UnchangedWidgets

\* ----------------------------------------------------------- specification
Next ==
    \/ \E fail \in FailSteps : take_image_button_pressed(fail)
    \/ continue_button_pressed
    \/ \E m \in {MovementMode[i] : i \in 1..Len(MovementMode)} : movement_mode_changed(m)
    \/ \E c \in {NeedleCoordinates[i] : i \in 1..Len(NeedleCoordinates)} :
          needle_coordinate_selected(c)
    \/ \E v \in TiltInputs : tilt_degrees_edited(v)
    \/ stage_tilt
    \/ auto_eucentric_button_pressed
    \/ \E coords \in Clicks(shape) : double_click(coords, TRUE, FailSteps)
    \/ \E coords \in Clicks(shape), e \in EventTypes : single_click(coords, e)

Spec == Init /\ [][Next]_vars

\* the click mapping on its own: a dialog whose refreshes and moves succeed,
\* double-clicked at every coordinate of the grid
InitCoord == Construct({<<"eucentric", None>>}, GridShapes \cup {ExampleShape}, {"none"})

NextCoord == \E coords \in Grid(shape) : double_click(coords, FALSE, {"none"})

SpecCoord == InitCoord /\ [][NextCoord]_vars


\* ================================================================== claims
\* the stage calls among the calls of the last handler
StageCalls == {"move_stage_eucentric_correction",
               "move_stage_relative_with_corrected_movement",
               "absolute_move", "auto_eucentric_correction"}
MovesOf(events) == SelectSeq(events, LAMBDA e : e.f \in StageCalls)
CallsOf(events, f) == SelectSeq(events, LAMBDA e : e.f = f)

\* the last handler was a double-click
DoubleClicked == last.op = "_double_click"
ClickRow == last.click.coords[1]
ClickCol == last.click.coords[2]
HalfWidth == shape[2] \div 2

\* the displacement _double_click computed for the last click
ClickDisplacement ==
    pixel_to_realspace_coordinate(<<last.click.local[2], last.click.local[1]>>, shape)

\* C1: every click strictly inside the right half of the composite resolves
\* to ION, the ion image and the local coordinate (row, col - W/2)
C1_RightHalfIsIon ==
    (DoubleClicked /\ 0 < ClickRow /\ ClickRow < shape[1]
        /\ HalfWidth < ClickCol /\ ClickCol < shape[2])
    => /\ last.click.beam_type = "ION"
       /\ last.click.adorned_image.attr = "ib_image"
       /\ last.click.local = <<ClickRow, ClickCol - HalfWidth>>

\* C2: every click strictly inside the left half resolves to ELECTRON, the
\* electron image and the unchanged coordinate; no click left of the seam
\* resolves to ION
C2_LeftHalfIsElectron ==
    DoubleClicked
    => /\ (0 < ClickRow /\ ClickRow < shape[1] /\ 0 < ClickCol /\ ClickCol < HalfWidth)
          => /\ last.click.beam_type = "ELECTRON"
             /\ last.click.adorned_image.attr = "eb_image"
             /\ last.click.local = last.click.coords
       /\ ClickCol < HalfWidth => last.click.beam_type # "ION"

C2_Witness ==
    /\ DoubleClicked
    /\ shape = ExampleShape
    /\ last.click.coords = <<10, 10>>
    /\ last.click.beam_type = "ELECTRON"
    /\ last.click.local = <<10, 10>>

\* C3: a double-click below or to the right of the composite resolves to no
\* beam, and a double-click that resolves to no beam returns normally after
\* one notification, with no stage call, no refresh and no change of
\* movement_mode, eb_image, ib_image, the composite or the layers
C3_OutsideClickIsNotice ==
    /\ [](DoubleClicked /\ (ClickRow >= shape[1] \/ ClickCol >= shape[2])
            => last.click.beam_type = None)
    /\ [][(last'.op = "_double_click" /\ last'.click.beam_type = None)
            => /\ last'.err = None
               /\ last'.events = <<Ev("show_info")>>
               /\ UNCHANGED <<phase, movement_mode, eb_image, ib_image, image, layers>>]_vars

C3_Witness ==
    /\ DoubleClicked
    /\ ClickRow >= shape[1]
    /\ last.click.beam_type = None
    /\ last.events = <<Ev("show_info")>>

\* C4: a double-click that resolves to ION while Eucentric is selected issues
\* exactly one stage call, move_stage_eucentric_correction with dy negated
\* and nothing else
C4_IonEucentricMove ==
    (DoubleClicked /\ last.click.beam_type = "ION" /\ comboBox_movement_mode = "Eucentric")
    => MovesOf(last.events) =
          <<[Ev("move_stage_eucentric_correction") EXCEPT !.dy = 0 - ClickDisplacement[2]]>>

C4_Witness ==
    /\ DoubleClicked
    /\ last.click.beam_type = "ION"
    /\ comboBox_movement_mode = "Eucentric"
    /\ ClickDisplacement[2] # 0
    /\ Len(CallsOf(last.events, "move_stage_eucentric_correction")) = 1

\* C5: a double-click that resolves to a beam, other than ION while Eucentric
\* is selected, issues exactly one stage call,
\* move_stage_relative_with_corrected_movement with (dx, dy) and the clicked
\* beam
C5_StableMove ==
    (DoubleClicked /\ last.click.beam_type # None
        /\ ~(last.click.beam_type = "ION" /\ comboBox_movement_mode = "Eucentric"))
    => MovesOf(last.events) =
          <<[Ev("move_stage_relative_with_corrected_movement") EXCEPT
                !.dx = ClickDisplacement[1], !.dy = ClickDisplacement[2],
                !.beam = last.click.beam_type]>>

C5_Witness ==
    /\ DoubleClicked
    /\ last.click.beam_type = "ELECTRON"
    /\ comboBox_movement_mode = "Eucentric"
    /\ Len(CallsOf(last.events, "move_stage_relative_with_corrected_movement")) = 1

\* the last handler made a stage call
MoveHandled ==
    /\ last.op \in {"_double_click", "stage_tilt", "auto_eucentric_button_pressed"}
    /\ MovesOf(last.events) # <<>>

\* the refresh of the last handler acquired a new pair and put its composite
\* into the viewer as the only layer
RefreshReplaced ==
    /\ Len(CallsOf(last.events, "take_reference_images")) = 1
    /\ Len(CallsOf(last.events, "layers.clear")) = 1
    /\ Len(CallsOf(last.events, "add_image")) = 1
    /\ eb_image = 1 /\ ib_image = 1
    /\ image = Concat(eb_image, ib_image)
    /\ Len(layers) = 1 /\ layers[1].image = image

\* the stage call comes first and is the only one; a refresh is issued if and
\* only if the call returned, and then exactly once
MoveThenOneRefresh ==
    /\ Len(MovesOf(last.events)) = 1
    /\ last.events[1].f \in StageCalls
    /\ last.err = None => Len(CallsOf(last.events, "update_displays")) = 1
    /\ last.err # None => CallsOf(last.events, "update_displays") = <<>>

\* C6 as stated: every stage call that returns is followed by one refresh
\* that re-acquires both images and replaces the layer
C6_MoveThenReplacedLayer ==
    MoveHandled
    => /\ MoveThenOneRefresh
       /\ last.err = None => RefreshReplaced

\* C6: every stage call that returns is followed in the same handler by
\* exactly one update_displays, never before the call and never when the call
\* raises; unless a step of that refresh fails (a notification is shown then)
\* it re-acquires both images and replaces the layer by one new composite
C6_MoveThenRefresh ==
    MoveHandled
    => /\ MoveThenOneRefresh
       /\ (last.err = None /\ CallsOf(last.events, "show_info") = <<>>) => RefreshReplaced
       /\ Len(CallsOf(last.events, "show_info")) <= 1

C6_Witness ==
    /\ MoveHandled
    /\ last.op = "auto_eucentric_button_pressed"
    /\ last.err = None
    /\ CallsOf(last.events, "show_info") = <<>>
    /\ RefreshReplaced

\* the refresh of the last handler went through every step
RefreshComplete ==
    /\ RefreshReplaced
    /\ layers[1].double_click /\ layers[1].single_click

\* C7: a handler that calls update_displays never raises and leaves the
\* dialog open, a refresh that did not complete shows a notification, and
\* take image, double-click, mode change and continue never raise for want
\* of state a failed refresh did not set
C7_RefreshNeverRaises ==
    /\ CallsOf(last.events, "update_displays") # <<>>
       => /\ last.err = None
          /\ phase = "open"
          /\ ~RefreshComplete => Len(CallsOf(last.events, "show_info")) = 1
    /\ last.op \in {"take_image_button_pressed", "movement_mode_changed",
                    "continue_button_pressed"} => last.err = None
    /\ DoubleClicked => last.err \in {None, "move"}

C7_Witness ==
    /\ DoubleClicked
    /\ last.err = None
    /\ last.click.beam_type = None
    /\ image # NoImage
    /\ image # Concat(eb_image, ib_image)

\* C8: a single click is acted on only for mouse_press in Needle mode; it
\* then resolves the beam and the coordinate role and returns normally; no
\* single click issues a stage call or an acquisition
C8_SingleClickLogsPick ==
    last.op = "_single_click"
    => /\ last.err = None
       /\ MovesOf(last.events) = <<>>
       /\ CallsOf(last.events, "take_reference_images") = <<>>
       /\ IF last.click.event = "mouse_press" /\ movement_mode = "Needle"
          THEN last.click.coord_type \in {"Source", "Destination"}
          ELSE last.click.coord_type = None

\* C9: tilt_movement_enabled is true exactly for msg_type "alignment" and
\* never changes; an absolute stage move is issued only by stage_tilt, only
\* when tilt movement is enabled, with t = deg2rad(angle) for the angle of the
\* spin box, which lies within [0, 25], and both compucentric flags set
C9_TiltGate ==
    /\ [](tilt_movement_enabled = (msg_type = "alignment"))
    /\ [][tilt_movement_enabled' = tilt_movement_enabled]_vars
    /\ [](CallsOf(last.events, "absolute_move") # <<>>
            => /\ tilt_movement_enabled
               /\ last.op = "stage_tilt"
               /\ tilt_degrees \in TiltMin..TiltMax
               /\ MovesOf(last.events) =
                     <<[Ev("absolute_move") EXCEPT !.t = deg2rad(tilt_degrees),
                                                   !.rotate_compucentric = TRUE,
                                                   !.tilt_compucentric = TRUE]>>)

C9_Witness ==
    /\ last.op = "stage_tilt"
    /\ last.err = None
    /\ tilt_degrees = TiltMax
    /\ Len(CallsOf(last.events, "absolute_move")) = 1
    /\ last.events[1].t = deg2rad(25)

\* C10: the mode is Stable after construction, always equals the selection
\* of the mode combobox, changes only in movement_mode_changed, and the
\* needle-coordinate label and selector are visible exactly in Needle mode
C10_ModeFollowsSelection ==
    /\ [](/\ movement_mode = comboBox_movement_mode
          /\ needle_visible.label = (movement_mode = "Needle")
          /\ needle_visible.comboBox = (movement_mode = "Needle")
          /\ last.op = "__init__" => movement_mode = "Stable")
    /\ [][movement_mode' # movement_mode
            => /\ last'.op = "movement_mode_changed"
               /\ comboBox_movement_mode' # comboBox_movement_mode]_vars

C10_Witness ==
    /\ DoubleClicked
    /\ last.click.beam_type # None
    /\ movement_mode = "Needle"
    /\ needle_visible.label /\ needle_visible.comboBox

\* C11: construction returns for every message-type hint and message, with
\* the mode Stable and tilt movement enabled exactly for "alignment"
C11_ConstructionSucceeds ==
    last.op = "__init__"
    => /\ last.err = None
       /\ phase = "open"
       /\ movement_mode = "Stable"
       /\ tilt_movement_enabled = (msg_type = "alignment")

\* the text set_message renders for the current mode when the mode before it
\* was prev
RenderedAfter(prev) ==
    set_message(msg_type, msg, movement_mode,
                set_message(msg_type, msg, prev, "").label).label

\* C14: the instruction label depends only on the current mode and on the
\* (msg_type, msg) of construction: it is what set_message renders for the
\* current mode whatever mode was shown before, and the caller's message in
\* Stable mode
C14_LabelOfModeOnly ==
    phase = "open"
    => /\ \A prev \in {MovementMode[i] : i \in 1..Len(MovementMode)} :
             label_message = RenderedAfter(prev)
       /\ movement_mode = "Stable"
             => label_message = (IF msg = None THEN msg_dict(msg_type) ELSE msg)

\* C15: whenever a click handler can run, the composite is the concatenation
\* of the stored pair and is the image of the layer that carries the callbacks
C15_PairCompositeLayerAgree ==
    (phase = "open" /\ Len(layers) > 0
        /\ (layers[1].double_click \/ layers[1].single_click))
    => /\ image = Concat(eb_image, ib_image)
       /\ layers[1].image = image

\* C16: every coordinate inside the composite resolves to ELECTRON left of
\* the seam and to ION from the seam on, with a local column in [0, W/2)
C16_MappingIsTotal ==
    (DoubleClicked /\ 0 <= ClickRow /\ ClickRow < shape[1]
        /\ 0 <= ClickCol /\ ClickCol < shape[2])
    => /\ last.click.beam_type = (IF ClickCol < HalfWidth THEN "ELECTRON" ELSE "ION")
       /\ last.click.local[2] >= 0
       /\ last.click.local[2] < HalfWidth


\* ------------------------------------------------------- settings records
\* fibsem.structures: a record is [cls |-> class name, field |-> value, ...],
\* the mapping of a record has the same keys without cls. Lengths are held in
\* micrometres, times in microseconds, angles in microradians (stored) and
\* whole degrees (serialized).

\* a member of class BeamType(Enum)
Member(name) == [enum |-> "BeamType", name |-> name]

\* BeamType[name]: the member of that name
BeamTypeByName(name) == IF name \in BeamType THEN Member(name) ELSE NoRecord

\* np.rad2deg, from microradians to the nearest degree
rad2deg(rad) == (rad * 180 + 1570796) \div 3141593

Point_to_dict(r) == [x |-> r.x, y |-> r.y]

Point_from_dict(m) == [cls |-> "Point", x |-> m.x, y |-> m.y]

FibsemRectangle_to_dict(r) ==
    [left |-> r.left, top |-> r.top, width |-> r.width, height |-> r.height]

FibsemRectangle_from_dict(m) ==
    [cls |-> "FibsemRectangle", left |-> m.left, top |-> m.top,
     width |-> m.width, height |-> m.height]

GammaSettings_to_dict(r) ==
    [enabled |-> r.enabled, min_gamma |-> r.min_gamma, max_gamma |-> r.max_gamma,
     scale_factor |-> r.scale_factor, threshold |-> r.threshold]

GammaSettings_from_dict(m) ==
    [cls |-> "GammaSettings", enabled |-> m.enabled, min_gamma |-> m.min_gamma,
     max_gamma |-> m.max_gamma, scale_factor |-> m.scale_factor,
     threshold |-> m.threshold]

BeamSettings_to_dict(r) ==
    [beam_type |-> r.beam_type.name, working_distance |-> r.working_distance,
     beam_current |-> r.beam_current, hfw |-> r.hfw, resolution |-> r.resolution,
     dwell_time |-> r.dwell_time, stigmation |-> r.stigmation]

BeamSettings_from_dict(m) ==
    [cls |-> "BeamSettings", beam_type |-> BeamTypeByName(m.beam_type),
     working_distance |-> m.working_distance, beam_current |-> m.beam_current,
     hfw |-> m.hfw, resolution |-> m.resolution, dwell_time |-> m.dwell_time,
     stigmation |-> m.stigmation]

\* reduced_area is optional: None stays None
ImageSettings_to_dict(r) ==
    [resolution |-> r.resolution, dwell_time |-> r.dwell_time, hfw |-> r.hfw,
     autocontrast |-> r.autocontrast, beam_type |-> r.beam_type.name,
     gamma |-> GammaSettings_to_dict(r.gamma), save |-> r.save,
     save_path |-> r.save_path, label |-> r.label,
     reduced_area |-> IF r.reduced_area = NoRecord THEN NoRecord
                      ELSE FibsemRectangle_to_dict(r.reduced_area)]

ImageSettings_from_dict(m) ==
    [cls |-> "ImageSettings", resolution |-> m.resolution,
     dwell_time |-> m.dwell_time, hfw |-> m.hfw, autocontrast |-> m.autocontrast,
     beam_type |-> BeamTypeByName(m.beam_type),
     gamma |-> GammaSettings_from_dict(m.gamma), save |-> m.save,
     save_path |-> m.save_path, label |-> m.label,
     reduced_area |-> IF m.reduced_area = NoRecord THEN NoRecord
                      ELSE FibsemRectangle_from_dict(m.reduced_area)]

StagePosition_to_dict(r) ==
    [x |-> r.x, y |-> r.y, z |-> r.z, r |-> r.r, t |-> r.t,
     coordinate_system |-> r.coordinate_system]

StagePosition_from_dict(m) ==
    [cls |-> "StagePosition", x |-> m.x, y |-> m.y, z |-> m.z, r |-> m.r,
     t |-> m.t, coordinate_system |-> m.coordinate_system]

MicroscopeState_to_dict(r) ==
    [timestamp |-> r.timestamp,
     absolute_position |-> StagePosition_to_dict(r.absolute_position),
     eb_settings |-> BeamSettings_to_dict(r.eb_settings),
     ib_settings |-> BeamSettings_to_dict(r.ib_settings)]

MicroscopeState_from_dict(m) ==
    [cls |-> "MicroscopeState", timestamp |-> m.timestamp,
     absolute_position |-> StagePosition_from_dict(m.absolute_position),
     eb_settings |-> BeamSettings_from_dict(m.eb_settings),
     ib_settings |-> BeamSettings_from_dict(m.ib_settings)]

\* rotation is written in degrees
MillingSettings_to_dict(r) ==
    [width |-> r.width, height |-> r.height, depth |-> r.depth,
     rotation |-> rad2deg(r.rotation), centre_x |-> r.centre_x,
     centre_y |-> r.centre_y, milling_current |-> r.milling_current,
     scan_direction |-> r.scan_direction,
     cleaning_cross_section |-> r.cleaning_cross_section]

\* a reader that takes the serialized rotation for radians
MillingSettings_from_dict_noConvert(m) ==
    [cls |-> "MillingSettings", width |-> m.width, height |-> m.height,
     depth |-> m.depth, rotation |-> m.rotation, centre_x |-> m.centre_x,
     centre_y |-> m.centre_y, milling_current |-> m.milling_current,
     scan_direction |-> m.scan_direction,
     cleaning_cross_section |-> m.cleaning_cross_section]

\* rotation is read in degrees and stored in radians
MillingSettings_from_dict(m) ==
    [cls |-> "MillingSettings", width |-> m.width, height |-> m.height,
     depth |-> m.depth, rotation |-> deg2rad(m.rotation), centre_x |-> m.centre_x,
     centre_y |-> m.centre_y, milling_current |-> m.milling_current,
     scan_direction |-> m.scan_direction,
     cleaning_cross_section |-> m.cleaning_cross_section]

FibsemImageMetadata_to_dict(r) ==
    [image_settings |-> ImageSettings_to_dict(r.image_settings),
     version |-> r.version, pixel_size |-> Point_to_dict(r.pixel_size),
     microscope_state |-> MicroscopeState_to_dict(r.microscope_state)]

FibsemImageMetadata_from_dict(m) ==
    [cls |-> "FibsemImageMetadata",
     image_settings |-> ImageSettings_from_dict(m.image_settings),
     version |-> m.version, pixel_size |-> Point_from_dict(m.pixel_size),
     microscope_state |-> MicroscopeState_from_dict(m.microscope_state)]

\* R.__to_dict__()
to_dict(r) ==
    CASE r.cls = "Point" -> Point_to_dict(r)
      [] r.cls = "StagePosition" -> StagePosition_to_dict(r)
      [] r.cls = "GammaSettings" -> GammaSettings_to_dict(r)
      [] r.cls = "BeamSettings" -> BeamSettings_to_dict(r)
      [] r.cls = "ImageSettings" -> ImageSettings_to_dict(r)
      [] r.cls = "MicroscopeState" -> MicroscopeState_to_dict(r)
      [] r.cls = "MillingSettings" -> MillingSettings_to_dict(r)
      [] r.cls = "FibsemRectangle" -> FibsemRectangle_to_dict(r)
      [] r.cls = "FibsemImageMetadata" -> FibsemImageMetadata_to_dict(r)

\* c.__from_dict__(m), when no name lookup fails
from_dict(c, m) ==
    CASE c = "Point" -> Point_from_dict(m)
      [] c = "StagePosition" -> StagePosition_from_dict(m)
      [] c = "GammaSettings" -> GammaSettings_from_dict(m)
      [] c = "BeamSettings" -> BeamSettings_from_dict(m)
      [] c = "ImageSettings" -> ImageSettings_from_dict(m)
      [] c = "MicroscopeState" -> MicroscopeState_from_dict(m)
      [] c = "MillingSettings" -> MillingSettings_from_dict(m)
      [] c = "FibsemRectangle" -> FibsemRectangle_from_dict(m)
      [] c = "FibsemImageMetadata" -> FibsemImageMetadata_from_dict(m)

\* the beam_type names c.__from_dict__(m) looks up
BeamTypeNames(c, m) ==
    CASE c \in {"BeamSettings", "ImageSettings"} -> {m.beam_type}
      [] c = "MicroscopeState" -> {m.eb_settings.beam_type, m.ib_settings.beam_type}
      [] c = "FibsemImageMetadata" ->
            {m.image_settings.beam_type, m.microscope_state.eb_settings.beam_type,
             m.microscope_state.ib_settings.beam_type}
      [] OTHER -> {}

\* the error c.__from_dict__(m) raises: an unknown enum name is a KeyError
from_dict_raises(c, m) ==
    IF BeamTypeNames(c, m) \subseteq BeamType THEN None ELSE "KeyError"

\* ------------------------------------------------------ the records tried
\* fibsem.config.METADATA_VERSION, and a version some other release wrote
METADATA_VERSION == "v1"
Versions == {METADATA_VERSION, "v0"}

\* stored rotations: 0, 45 and 90 degrees, and 0.1 rad
Rotations == {deg2rad(0), deg2rad(45), deg2rad(90), 100000}

GammaSettingsSet ==
    {[cls |-> "GammaSettings", enabled |-> e, min_gamma |-> 500,
      max_gamma |-> 1800, scale_factor |-> 10, threshold |-> 46] : e \in BOOLEAN}

BeamSettingsSet ==
    {[cls |-> "BeamSettings", beam_type |-> Member(b), working_distance |-> 4000,
      beam_current |-> 60, hfw |-> 150, resolution |-> "1560x1240",
      dwell_time |-> 1, stigmation |-> 1] : b \in BeamType}

FibsemRectangleSet ==
    {[cls |-> "FibsemRectangle", left |-> 0, top |-> 0, width |-> w, height |-> 1]
        : w \in {1, 2}}

ImageSettingsSet ==
    {[cls |-> "ImageSettings", resolution |-> "32x32", dwell_time |-> 1,
      hfw |-> 150, autocontrast |-> TRUE, beam_type |-> Member(b), gamma |-> g,
      save |-> FALSE, save_path |-> "path", label |-> "label", reduced_area |-> a]
        : b \in BeamType, g \in GammaSettingsSet,
          a \in FibsemRectangleSet \cup {NoRecord}}

StagePositionSet ==
    {[cls |-> "StagePosition", x |-> 0, y |-> 0, z |-> 0, r |-> 0, t |-> 0,
      coordinate_system |-> cs] : cs \in {"Raw", "Specimen"}}

MicroscopeStateSet ==
    {[cls |-> "MicroscopeState", timestamp |-> 1, absolute_position |-> sp,
      eb_settings |-> eb, ib_settings |-> ib]
        : sp \in StagePositionSet, eb \in BeamSettingsSet, ib \in BeamSettingsSet}

MillingSettingsSet ==
    {[cls |-> "MillingSettings", width |-> 10, height |-> 10, depth |-> 10,
      rotation |-> rot, centre_x |-> 0, centre_y |-> 0, milling_current |-> 2,
      scan_direction |-> "TopToBottom", cleaning_cross_section |-> ccs]
        : rot \in Rotations, ccs \in BOOLEAN}

\* the metadata of the image tests, with either version
FibsemImageMetadataSet ==
    {[cls |-> "FibsemImageMetadata", image_settings |-> s, version |-> v,
      pixel_size |-> [cls |-> "Point", x |-> 0, y |-> 0], microscope_state |-> ms]
        : s \in {i \in ImageSettingsSet : i.gamma.enabled /\ i.reduced_area # NoRecord},
          v \in Versions,
          ms \in {st \in MicroscopeStateSet :
                    /\ st.absolute_position.coordinate_system = "Raw"
                    /\ st.eb_settings.beam_type = Member("ELECTRON")
                    /\ st.ib_settings.beam_type = Member("ION")}}

Records ==
    GammaSettingsSet \cup BeamSettingsSet \cup ImageSettingsSet
        \cup MicroscopeStateSet \cup MillingSettingsSet \cup FibsemRectangleSet
        \cup FibsemImageMetadataSet

\* the mappings the tests read: a class and its mapping; the last one names a
\* beam type that does not exist
Dicts ==
    {<<"MillingSettings",
       [width |-> 10, height |-> 10, depth |-> 10, rotation |-> 45,
        centre_x |-> 0, centre_y |-> 0, milling_current |-> 2,
        scan_direction |-> "TopToBottom", cleaning_cross_section |-> FALSE]>>}
    \cup
    {<<"BeamSettings",
       [beam_type |-> b, working_distance |-> 4000, beam_current |-> 60,
        hfw |-> 150, resolution |-> "1560x1240", dwell_time |-> 1,
        stigmation |-> 1]>> : b \in {"ELECTRON", "ION", "PHOTON"}}

\* ------------------------------------------------- converting the records
\* no dialog is constructed while records are converted or images stored
NoDialog ==
    /\ phase = "none"
    /\ shape = <<0, 0>>
    /\ msg_type = None
    /\ msg = None
    /\ movement_mode = MovementMode[1]
    /\ tilt_movement_enabled = FALSE
    /\ comboBox_movement_mode = MovementMode[1]
    /\ comboBox_needle_coordinate = NeedleCoordinates[1]
    /\ needle_visible = FALSE
    /\ tilt_connected = FALSE
    /\ tilt_degrees = 0
    /\ label_message = ""
    /\ eb_image = 0
    /\ ib_image = 0
    /\ image = NoImage
    /\ layers = <<>>

UnchangedDialog ==
    UNCHANGED <<phase, shape, msg_type, msg, movement_mode, tilt_movement_enabled,
                comboBox_movement_mode, comboBox_needle_coordinate, needle_visible,
                tilt_connected, tilt_degrees, label_message, eb_image, ib_image,
                image, layers>>

\* a record R about to be serialized, or a mapping D about to be read
InitSettings ==
    /\ NoDialog
    /\ last = Last("settings", None, <<>>, NoClick)
    /\ restored = NoRecord
    /\ files = [p \in Paths |-> NoRecord]
    /\ saved = [p \in Paths |-> NoRecord]
    /\ img = NoRecord
    /\ loaded = NoRecord
    /\ \/ \E r \in Records :
            /\ cls = r.cls
            /\ record = r
            /\ mapping = NoRecord
       \/ \E d \in Dicts :
            /\ cls = d[1]
            /\ record = NoRecord
            /\ mapping = d[2]

\* mapping = R.__to_dict__()
settings_to_dict ==
    /\ record # NoRecord
    /\ last.op = "settings"
    /\ mapping' = to_dict(record)
    /\ last' = Last("__to_dict__", None, <<>>, NoClick)
    /\ UNCHANGED <<cls, record, restored, files, saved, img, loaded>>
    /\ UnchangedDialog

\* restored = cls.__from_dict__(mapping)
settings_from_dict ==
    /\ mapping # NoRecord
    /\ last.op # "__from_dict__"
    /\ LET err == from_dict_raises(cls, mapping)
       IN  /\ restored' = IF err = None THEN from_dict(cls, mapping) ELSE NoRecord
           /\ last' = Last("__from_dict__", err, <<>>, NoClick)
    /\ UNCHANGED <<cls, record, mapping, files, saved, img, loaded>>
    /\ UnchangedDialog

NextSettings == settings_to_dict \/ settings_from_dict

SpecSettings == InitSettings /\ [][NextSettings]_vars


\* ------------------------------------------------------------ C13
\* the fields of a class that hold an enum member, and those that hold a record
EnumFields(c) == IF c \in {"BeamSettings", "ImageSettings"} THEN {"beam_type"} ELSE {}

RecordFields(c) ==
    CASE c = "ImageSettings" -> {"gamma", "reduced_area"}
      [] c = "MicroscopeState" -> {"absolute_position", "eb_settings", "ib_settings"}
      [] c = "FibsemImageMetadata" -> {"image_settings", "pixel_size", "microscope_state"}
      [] OTHER -> {}

AngleFields(c) == IF c = "MillingSettings" THEN {"rotation"} ELSE {}

\* a record has been serialized
Serialized == record # NoRecord /\ mapping # NoRecord

\* a record has been serialized and read back
RoundTripped == record # NoRecord /\ last.op = "__from_dict__"

\* a mapping that came from no record has been read
ReadFromDict == record = NoRecord /\ last.op = "__from_dict__" /\ last.err = None

\* every field but the angle crosses the boundary as stated: an enum member as
\* its name, a record as its mapping, anything else unchanged
BoundaryOf(r, m) ==
    /\ DOMAIN m = DOMAIN r \ {"cls"}
    /\ \A f \in DOMAIN m \ AngleFields(r.cls) :
          IF f \in EnumFields(r.cls) THEN m[f] = r[f].name
          ELSE IF f \in RecordFields(r.cls)
               THEN /\ "cls" \notin DOMAIN m[f] \/ m[f] = NoRecord
                    /\ m[f] = (IF r[f] = NoRecord THEN NoRecord ELSE to_dict(r[f]))
          ELSE m[f] = r[f]

Arrays ==
    {[dtype |-> "uint8", shape |-> <<256, 128>>, px |-> 0],
     [dtype |-> "uint16", shape |-> <<32>>, px |-> 1],
     [dtype |-> "uint16", shape |-> <<32, 32, 32>>, px |-> 2]}

ndim(A) == Len(A.shape)

\* metadata an image is built with: none, or the fixture with either version
Metadatas ==
    {NoRecord} \cup
    {m \in FibsemImageMetadataSet :
        /\ m.image_settings.beam_type = Member("ELECTRON")
        /\ m.image_settings.reduced_area.width = 1}

\* json.dumps / json.loads of a mapping of strings, numbers, booleans, None
\* and mappings: the text of the mapping, which parses back to it
json_dumps(m) == [text |-> m]

json_loads(t) == t.text

\* FibsemImage(data, metadata): arrays of more than two dimensions are refused
FibsemImage_raises(A) == IF ndim(A) > 2 THEN "ValueError" ELSE None

FibsemImage(A, M) == [cls |-> "FibsemImage", data |-> A, metadata |-> M]

\* the file save writes: the array, and the metadata in the description tag
TiffFile(im) ==
    [cls |-> "TiffFile", data |-> im.data,
     description |-> IF im.metadata = NoRecord THEN NoRecord
                     ELSE json_dumps(FibsemImageMetadata_to_dict(im.metadata))]

\* a writer that leaves an existing file alone
write_file_exclusive(fs, path, f) ==
    IF fs[path] = NoRecord THEN [fs EXCEPT ![path] = f] ELSE fs

\* the file at path is created or overwritten
write_file(fs, path, f) == [fs EXCEPT ![path] = f]

\* the image load builds from a file: metadata only if the description is there
read_file(f) ==
    FibsemImage(f.data,
                IF f.description = NoRecord THEN NoRecord
                ELSE FibsemImageMetadata_from_dict(json_loads(f.description)))

\* nothing on disk, no image built
InitImage ==
    /\ NoDialog
    /\ last = Last("image", None, <<>>, NoClick)
    /\ NoStorage

\* img = FibsemImage(A, M)
FibsemImage_init(A, M) ==
    /\ LET err == FibsemImage_raises(A)
       IN  /\ img' = IF err = None THEN FibsemImage(A, M) ELSE img
           /\ last' = Last("FibsemImage", err, <<>>, NoClick)
    /\ UNCHANGED <<cls, record, mapping, restored, files, saved, loaded>>
    /\ UnchangedDialog

\* img.save(path)
FibsemImage_save(path) ==
    /\ img # NoRecord
    /\ files' = write_file(files, path, TiffFile(img))
    /\ saved' = [saved EXCEPT ![path] = img]
    /\ last' = Last("save", None, <<>>, NoClick)
    /\ UNCHANGED <<cls, record, mapping, restored, img, loaded>>
    /\ UnchangedDialog

\* loaded = FibsemImage.load(path)
FibsemImage_load(path) ==
    /\ IF files[path] = NoRecord
       THEN /\ last' = Last("load", "FileNotFoundError", <<>>, NoClick)
            /\ UNCHANGED loaded
       ELSE /\ last' = Last("load", None, <<>>, NoClick)
            /\ loaded' = [path |-> path, image |-> read_file(files[path])]
    /\ UNCHANGED <<cls, record, mapping, restored, files, saved, img>>
    /\ UnchangedDialog

NextImage ==
    \/ \E A \in Arrays, M \in Metadatas : FibsemImage_init(A, M)
    \/ \E path \in Paths : FibsemImage_save(path)
    \/ \E path \in Paths : FibsemImage_load(path)

SpecImage == InitImage /\ [][NextImage]_vars

\* ------------------------------------------------------------ C12
\* a load has just returned an image
Loaded == last.op = "load" /\ last.err = None

\* the file at every path holds the image last saved there
LastSaveOnDisk ==
    \A p \in Paths :
        saved[p] # NoRecord => (files[p] # NoRecord /\ files[p] = TiffFile(saved[p]))

\* the loaded image is the one last saved to the path: data, shape, dtype and
\* metadata
LoadedIsLastSaved ==
    Loaded => LET S == saved[loaded.path]
                  L == loaded.image
              IN  /\ Len(S.data.shape) <= 2
                  /\ L.data = S.data
                  /\ L.data.shape = S.data.shape
                  /\ L.data.dtype = S.data.dtype
                  /\ L.metadata = S.metadata

====
